---- MODULE Spec2Model ----
(***************************************************************************)
(* Tracker issuance and access control of the express-server repository:   *)
(* the handlers of routes/trackers.js (create, read, list, update,         *)
(* deactivate, stats, validate), the ticket search that also looks up      *)
(* trackers, and the TripTracker table of prisma/schema.prisma.            *)
(*                                                                         *)
(* Every handler is an async function.  One action models the code that    *)
(* runs between two awaits together with the store operation it awaits,    *)
(* so that requests interleave exactly at the awaits of the source.        *)
(* The column updatedAt, which the store maintains by itself, is left out. *)
(***************************************************************************)
EXTENDS Integers, Sequences, FiniteSets, TLC

\* ------------------------------------------------------------------ bounds
MaxTime == 1        \* the clock runs over 0..MaxTime
MaxAccess == 2      \* reads are admitted while accessCount stays <= MaxAccess
NumProcs == 2       \* requests in flight at the same time

\* --------------------------------------------------------------- constants
maxAttempts == 10   \* default argument of ensureUniqueTrackerId

\* ------------------------------------------------------------------ values
Undef == "<undefined>"      \* a field absent from the request
Null == "<null>"            \* a stored NULL of a string column
NoDate == <<>>              \* a stored NULL of a DateTime column; <<t>> is a date
Procs == 1..NumProcs
Times == 0..MaxTime
Tokens == {"TRK1", "TRK2"}  \* what generateTrackerId can return
TripIds == {"T1"}           \* the trips of the store
TicketIds == {"TKT1"}       \* the generated tickets of the store

\* Date strings of a request body: ISO dates "t<n>", and one that is no date.
DateStrings == {"t0", "t1"}
InvalidDate == <<-1>>       \* an Invalid Date (time value NaN)

\* new Date(s) of an ISO string: the instant it denotes, else Invalid Date.
ParseDate(s) ==
    CASE s = "t0" -> <<0>>
      [] s = "t1" -> <<1>>
      [] OTHER -> InvalidDate

\* express-validator isISO8601()
isISO8601(s) == s \in DateStrings

\* express-validator isEmail()
isEmail(s) == s \in {"a@x.com", "B@x.com", "b@x.com"}

\* express-validator normalizeEmail(): lower-cases the address
normalizeEmail(s) == IF s = "B@x.com" THEN "b@x.com" ELSE s

\* express-validator isLength({min, max}) on the names and phones of the model
StrLen(s) ==
    CASE s \in {"", Null} -> 0
      [] s = "A" -> 1
      [] s = "Al" -> 2
      [] s = "Bo" -> 2
      [] s = "555" -> 3
      [] OTHER -> 5

\* JavaScript truthiness of a request string: undefined, null and "" are falsy
Truthy(s) == s \notin {Undef, Null, ""}

VARIABLES
    now,        \* the clock, what new Date() returns
    rows,       \* table trip_trackers, in insertion order (id = position)
    trips,      \* table trips: tripId -> start date
    outbox,     \* the confirmation mails handed to the transporter
    pc,         \* per request slot: where its handler stands ("idle": free)
    req,        \* per request slot: the request being served
    loc,        \* per request slot: the handler's local variables
    resp        \* the response sent last, with the request it answers

vars == <<now, rows, trips, outbox, pc, req, loc, resp>>

\* ------------------------------------------------------------------- store
\* prisma.tripTracker.findUnique({ where: { trackerId } }): the row, or null
HasRow(t) == \E i \in 1..Len(rows) : rows[i].trackerId = t
RowIndex(t) == CHOOSE i \in 1..Len(rows) : rows[i].trackerId = t
findUnique(t) == rows[RowIndex(t)]

\* IsExpired with the comparison the wrong way round
IsExpiredReversed(row, t) == row.expiresAt # NoDate /\ t < row.expiresAt[1]

\* IsExpired with the instant of expiry counted as expired
IsExpiredInclusive(row, t) == row.expiresAt # NoDate /\ t >= row.expiresAt[1]

\* new Date() > tracker.expiresAt, guarded by tracker.expiresAt being set
IsExpired(row, t) == row.expiresAt # NoDate /\ t > row.expiresAt[1]

\* ---------------------------------------------------------------- requests
NoReq == [op |-> "none", token |-> Undef, email |-> Undef, tripId |-> Undef,
          travelerName |-> Undef, phone |-> Undef, saveDate |-> Undef,
          startDate |-> Undef, expiresAt |-> Undef]
\* snap: the fetched tracker (<<>> or <<row>>); trackerId: the generated id
NoLoc == [snap |-> <<>>, trackerId |-> Undef, attempts |-> 0, mail |-> Undef,
          date |-> 0]
\* req: the request answered; exposed: the trackers whose trip is in the body
NoResp == [req |-> NoReq, status |-> 0, reason |-> "", exposed |-> {},
           list |-> <<>>, count |-> 0, valid |-> FALSE]

\* ?email= of a query string: absent, empty, the owner's, somebody else's
QueryEmails == {Undef, "", "a@x.com", "b@x.com"}

ReadRequests ==
    {[NoReq EXCEPT !.op = "read", !.token = t, !.email = e] :
        t \in Tokens, e \in QueryEmails}

DeactivateRequests ==
    {[NoReq EXCEPT !.op = "deactivate", !.token = t, !.email = e] :
        t \in Tokens, e \in QueryEmails}

StatsRequests ==
    {[NoReq EXCEPT !.op = "stats", !.token = t, !.email = e] :
        t \in Tokens, e \in {Undef, "b@x.com"}}

ValidateRequests ==
    {[NoReq EXCEPT !.op = "validate", !.token = t] : t \in Tokens}

ListRequests ==
    {[NoReq EXCEPT !.op = "list", !.email = e] : e \in {"a@x.com", "b@x.com"}}

\* The bodies of PUT /:trackerId: one field each, nothing, and invalid ones.
Patches ==
    {[travelerName |-> Undef, phone |-> Undef, expiresAt |-> Undef],
     [travelerName |-> "Bo", phone |-> Undef, expiresAt |-> Undef],
     [travelerName |-> "A", phone |-> Undef, expiresAt |-> Undef],
     [travelerName |-> Undef, phone |-> "555", expiresAt |-> Undef],
     [travelerName |-> Undef, phone |-> "", expiresAt |-> Undef],
     [travelerName |-> Undef, phone |-> Undef, expiresAt |-> "t0"],
     [travelerName |-> Undef, phone |-> Undef, expiresAt |-> "t1"],
     [travelerName |-> Undef, phone |-> Undef, expiresAt |-> ""]}

UpdateRequests ==
    {[NoReq EXCEPT !.op = "update", !.token = t, !.email = e,
                   !.travelerName = d.travelerName, !.phone = d.phone,
                   !.expiresAt = d.expiresAt] :
        t \in Tokens, e \in {Undef, "a@x.com", "b@x.com"}, d \in Patches}

\* The bodies of POST /: the accepted ones, and one per way of being refused.
CreateRequests ==
    {[NoReq EXCEPT !.op = "create", !.tripId = "T1", !.email = e,
                   !.travelerName = n, !.startDate = s, !.expiresAt = x] :
        e \in {"a@x.com", "B@x.com"}, n \in {Undef, "Al"},
        s \in {Undef, "t1"}, x \in {Undef, "t0", "garbage"}}
    \cup
    {[NoReq EXCEPT !.op = "create", !.tripId = "T1", !.email = "bad"],
     [NoReq EXCEPT !.op = "create", !.tripId = "", !.email = "a@x.com"],
     [NoReq EXCEPT !.op = "create", !.tripId = "T9", !.email = "a@x.com"],
     [NoReq EXCEPT !.op = "create", !.tripId = "T1", !.email = "a@x.com",
                   !.saveDate = "t0", !.phone = "555"]}

\* The bodies of POST /search (tickets route); token holds body.ticketId.
SearchRequests ==
    {[NoReq EXCEPT !.op = "search", !.token = t] : t \in Tokens \cup TicketIds}
    \cup
    {[NoReq EXCEPT !.op = "search", !.email = e] : e \in {Undef, "a@x.com", "bad"}}

\* Reads of token t that were received and have not answered yet.
PendingReads(t) ==
    Cardinality({q \in Procs : pc[q] = "read_update" /\ req[q].token = t})

\* The model admits a read only while the counter stays within MaxAccess.
Admitted(r) ==
    r.op = "read" =>
        (IF HasRow(r.token) THEN findUnique(r.token).accessCount ELSE 0)
            + PendingReads(r.token) < MaxAccess

\* res.status(..).json(..): the handler of request rq answers and ends
Respond(p, rq, r) ==
    /\ resp' = [r EXCEPT !.req = rq]
    /\ pc' = [pc EXCEPT ![p] = "idle"]
    /\ req' = [req EXCEPT ![p] = NoReq]
    /\ loc' = [loc EXCEPT ![p] = NoLoc]

\* the handler of request rq goes on to its next await
Continue(p, rq, label, l) ==
    /\ pc' = [pc EXCEPT ![p] = label]
    /\ req' = [req EXCEPT ![p] = rq]
    /\ loc' = [loc EXCEPT ![p] = l]
    /\ UNCHANGED resp

Error(status, reason) == [NoResp EXCEPT !.status = status, !.reason = reason]

\* ---------------------------------------------------- GET /:trackerId (read)
\* ReadVerdict with the email verified before the tracker's state is looked at
ReadVerdictEmailFirst(t, email, at) ==
    IF ~HasRow(t) THEN "NotFound"
    ELSE LET tracker == findUnique(t) IN
         IF Truthy(email) /\ tracker.email # email THEN "EmailMismatch"
         ELSE IF ~tracker.isActive THEN "Inactive"
         ELSE IF IsExpired(tracker, at) THEN "Expired"
         ELSE "Authorized"

\* The checks of the handler on the fetched tracker, in the order of the code.
ReadVerdict(t, email, at) ==
    IF ~HasRow(t) THEN "NotFound"
    ELSE LET tracker == findUnique(t) IN
         IF ~tracker.isActive THEN "Inactive"
         ELSE IF IsExpired(tracker, at) THEN "Expired"
         ELSE IF Truthy(email) /\ tracker.email # email THEN "EmailMismatch"
         ELSE "Authorized"

StatusOf(reason) ==
    CASE reason = "NotFound" -> 404
      [] reason = "Inactive" -> 410
      [] reason = "Expired" -> 410
      [] reason = "EmailMismatch" -> 403
      [] OTHER -> 200

\* Read of a handler that records the access before it checks the email
ReadCountingMismatch(p, menu) ==
    /\ pc[p] = "idle"
    /\ \E rq \in menu :
        /\ Admitted(rq)
        /\ LET v == ReadVerdict(rq.token, rq.email, now) IN
            IF v = "Authorized"
            THEN /\ Continue(p, rq, "read_update",
                             [NoLoc EXCEPT !.snap = <<findUnique(rq.token)>>,
                                           !.date = now])
                 /\ UNCHANGED rows
            ELSE /\ Respond(p, rq, Error(StatusOf(v), v))
                 /\ rows' = IF v = "EmailMismatch"
                            THEN [rows EXCEPT ![RowIndex(rq.token)].lastAccessed = <<now>>]
                            ELSE rows
    /\ UNCHANGED <<now, trips, outbox>>

\* findUnique and the checks that follow it
Read(p, menu) ==
    /\ pc[p] = "idle"
    /\ \E rq \in menu :
        /\ Admitted(rq)
        /\ LET v == ReadVerdict(rq.token, rq.email, now) IN
            IF v = "Authorized"
            THEN Continue(p, rq, "read_update",
                          [NoLoc EXCEPT !.snap = <<findUnique(rq.token)>>,
                                        !.date = now])
            ELSE Respond(p, rq, Error(StatusOf(v), v))
    /\ UNCHANGED <<now, rows, trips, outbox>>

\* the increment as a write of the fetched count plus one
IncrementAccessFromFetch(row, tracker, at) ==
    [row EXCEPT !.accessCount = tracker.accessCount + 1, !.lastAccessed = <<at>>]

\* the increment without the write of lastAccessed
IncrementAccessCountOnly(row, tracker, at) ==
    [row EXCEPT !.accessCount = @ + 1]

\* data: { accessCount: { increment: 1 }, lastAccessed: new Date() }
IncrementAccess(row, tracker, at) ==
    [row EXCEPT !.accessCount = @ + 1, !.lastAccessed = <<at>>]

\* the update of the audit fields (lastAccessed: the new Date() evaluated
\* when the handler issued the update, right after its checks), then the
\* response built from the fetch
ReadUpdate(p) ==
    /\ pc[p] = "read_update"
    /\ LET tracker == loc[p].snap[1]
           i == RowIndex(tracker.trackerId) IN
        /\ rows' = [rows EXCEPT ![i] = IncrementAccess(rows[i], tracker, loc[p].date)]
        /\ Respond(p, req[p],
                   [NoResp EXCEPT !.status = 200, !.reason = "Authorized",
                                  !.exposed = {tracker.trackerId},
                                  !.count = tracker.accessCount + 1])
    /\ UNCHANGED <<now, trips, outbox>>

\* ------------------------------------------------------------ POST / (create)
\* createTrackerValidation, on the body as received
CreateValid(r) ==
    /\ r.tripId \notin {Undef, ""}
    /\ isEmail(r.email)
    /\ r.travelerName # Undef => StrLen(r.travelerName) >= 2
    /\ r.phone # Undef => StrLen(r.phone) <= 50
    /\ r.saveDate # Undef => isISO8601(r.saveDate)
    /\ r.startDate # Undef => isISO8601(r.startDate)

\* Create of a handler that does not look the trip up
CreateNoTripLookup(p, menu) ==
    /\ pc[p] = "idle"
    /\ \E rq \in menu :
        IF ~CreateValid(rq)
        THEN Respond(p, rq, Error(400, "Validation"))
        ELSE Continue(p, [rq EXCEPT !.email = normalizeEmail(@)],
                      "create_unique", NoLoc)
    /\ UNCHANGED <<now, rows, trips, outbox>>

\* validationResult, then prisma.trip.findUnique
Create(p, menu) ==
    /\ pc[p] = "idle"
    /\ \E rq \in menu :
        IF ~CreateValid(rq)
        THEN Respond(p, rq, Error(400, "Validation"))
        ELSE IF rq.tripId \notin TripIds
        THEN Respond(p, rq, Error(404, "TripNotFound"))
        ELSE Continue(p, [rq EXCEPT !.email = normalizeEmail(@)],
                      "create_unique", NoLoc)
    /\ UNCHANGED <<now, rows, trips, outbox>>

\* EnsureUniqueStep without the lookup: the candidate is returned as it comes
EnsureUniqueStepNoLookup(p, candidate) ==
    /\ loc' = [loc EXCEPT ![p].trackerId = candidate,
                          ![p].attempts = 0,
                          ![p].date = now]
    /\ pc' = [pc EXCEPT ![p] = "create_trip"]
    /\ UNCHANGED <<req, resp>>

\* EnsureUniqueStep with the bound of the loop off by one
EnsureUniqueStepOneMore(p, candidate) ==
    LET attempts == loc[p].attempts + 1 IN
    IF ~HasRow(candidate)
    THEN /\ loc' = [loc EXCEPT ![p].trackerId = candidate, ![p].attempts = 0,
                               ![p].date = now]
         /\ pc' = [pc EXCEPT ![p] = "create_trip"]
         /\ UNCHANGED <<req, resp>>
    ELSE IF attempts <= maxAttempts
    THEN /\ loc' = [loc EXCEPT ![p].trackerId = candidate, ![p].attempts = attempts]
         /\ UNCHANGED <<pc, req, resp>>
    ELSE Respond(p, req[p], Error(500, "ExhaustedAttempts"))

\* One turn of the loop of ensureUniqueTrackerId: generateTrackerId, the
\* lookup of the candidate, and the return or the next turn (or the throw,
\* which the handler's catch answers with 500). On the return the handler
\* builds trackerData and the arguments of trip.update before its next
\* await: their new Date() is the instant of this step, kept in loc.date
\* (the loop's counter ends with the function).
EnsureUniqueStep(p, candidate) ==
    LET attempts == loc[p].attempts + 1 IN
    IF ~HasRow(candidate)
    THEN /\ loc' = [loc EXCEPT ![p].trackerId = candidate, ![p].attempts = 0,
                               ![p].date = now]
         /\ pc' = [pc EXCEPT ![p] = "create_trip"]
         /\ UNCHANGED <<req, resp>>
    ELSE IF attempts < maxAttempts
    THEN /\ loc' = [loc EXCEPT ![p].trackerId = candidate, ![p].attempts = attempts]
         /\ UNCHANGED <<pc, req, resp>>
    ELSE Respond(p, req[p], Error(500, "ExhaustedAttempts"))

CreateUnique(p, pool) ==
    /\ pc[p] = "create_unique"
    /\ \E candidate \in pool : EnsureUniqueStep(p, candidate)
    /\ UNCHANGED <<now, rows, trips, outbox>>

\* CreateTrip of a handler that fills in today only when the trip has no date
CreateTripKeepExisting(p) ==
    /\ pc[p] = "create_trip"
    /\ trips' = [trips EXCEPT ![req[p].tripId] =
                    IF Truthy(req[p].startDate) THEN ParseDate(req[p].startDate)
                    ELSE IF @ = NoDate THEN <<loc[p].date>> ELSE @]
    /\ pc' = [pc EXCEPT ![p] = "create_insert"]
    /\ UNCHANGED <<now, rows, outbox, req, loc, resp>>

\* prisma.trip.update: the start date given, else the new Date() evaluated
\* when the handler issued the update
CreateTrip(p) ==
    /\ pc[p] = "create_trip"
    /\ trips' = [trips EXCEPT ![req[p].tripId] =
                    IF Truthy(req[p].startDate)
                    THEN ParseDate(req[p].startDate) ELSE <<loc[p].date>>]
    /\ pc' = [pc EXCEPT ![p] = "create_insert"]
    /\ UNCHANGED <<now, rows, outbox, req, loc, resp>>

\* trackerData as built at instant `at`, with the defaults of the schema for
\* the columns it omits (createdAt is the store's now() at the insert)
TrackerData(r, trackerId, at) ==
    [trackerId |-> trackerId,
     tripId |-> r.tripId,
     email |-> r.email,
     travelerName |-> IF Truthy(r.travelerName) THEN r.travelerName ELSE Null,
     phone |-> IF Truthy(r.phone) THEN r.phone ELSE Null,
     saveDate |-> IF Truthy(r.saveDate) THEN ParseDate(r.saveDate) ELSE <<at>>,
     expiresAt |-> IF Truthy(r.expiresAt) THEN ParseDate(r.expiresAt) ELSE NoDate,
     isActive |-> TRUE,
     accessCount |-> 0,
     lastAccessed |-> NoDate,
     createdAt |-> at]

\* InsertAccepted of a table whose trackerId column is not unique
InsertAcceptedNoUnique(data) == data.expiresAt # InvalidDate

\* The store refuses a row whose DateTime is invalid or whose trackerId is
\* taken (@unique); otherwise it appends the row.
InsertAccepted(data) ==
    /\ data.expiresAt # InvalidDate
    /\ ~HasRow(data.trackerId)

\* CreateInsert of a handler that goes on to the dispatch after a refusal
CreateInsertMailAnyway(p) ==
    /\ pc[p] = "create_insert"
    /\ LET data == [TrackerData(req[p], loc[p].trackerId, loc[p].date)
                    EXCEPT !.createdAt = now] IN
        rows' = IF InsertAccepted(data) THEN Append(rows, data) ELSE rows
    /\ pc' = [pc EXCEPT ![p] = "create_mail"]
    /\ UNCHANGED <<now, trips, outbox, req, loc, resp>>

\* prisma.tripTracker.create; a refusal is thrown and answered with 500
CreateInsert(p) ==
    /\ pc[p] = "create_insert"
    /\ LET data == [TrackerData(req[p], loc[p].trackerId, loc[p].date)
                    EXCEPT !.createdAt = now] IN
        IF InsertAccepted(data)
        THEN /\ rows' = Append(rows, data)
             /\ pc' = [pc EXCEPT ![p] = "create_mail"]
             /\ UNCHANGED <<req, loc, resp>>
        ELSE /\ Respond(p, req[p],
                        Error(500, IF data.expiresAt = InvalidDate
                                   THEN "InvalidDate" ELSE "DuplicateTrackerId"))
             /\ UNCHANGED rows
    /\ UNCHANGED <<now, trips, outbox>>

\* the trip is fetched again and sendTripTrackerEmail hands the mail over
CreateMail(p) ==
    /\ pc[p] = "create_mail"
    /\ outbox' = outbox \cup {[to |-> req[p].email, trackerId |-> loc[p].trackerId]}
    /\ pc' = [pc EXCEPT ![p] = "create_respond"]
    /\ UNCHANGED <<now, rows, trips, req, loc, resp>>

\* How the awaited sendTripTrackerEmail can end: {success: true},
\* {success: false} (its own catch), or a rejection (caught by the handler).
MailOutcomes == {"sent", "failed", "threw"}

\* The transporter settles the dispatch the handler is awaiting. This is the
\* step of the mail service, not of the handler.
MailSettle(p) ==
    /\ pc[p] = "create_respond"
    /\ loc[p].mail = Undef
    /\ \E outcome \in MailOutcomes :
        loc' = [loc EXCEPT ![p].mail = outcome]
    /\ UNCHANGED <<now, rows, trips, outbox, pc, req, resp>>

\* CreateRespond of a handler that lets a failed dispatch fail the create
CreateRespondFailOnMail(p) ==
    /\ pc[p] = "create_respond"
    /\ loc[p].mail # Undef
    /\ Respond(p, req[p],
               IF loc[p].mail = "sent"
               THEN [NoResp EXCEPT !.status = 201, !.reason = "Created",
                                   !.list = <<loc[p].trackerId>>]
               ELSE Error(500, "MailFailed"))
    /\ UNCHANGED <<now, rows, trips, outbox>>

\* The await of sendTripTrackerEmail has settled: the outcome is logged and
\* the tracker is answered with 201 whatever it is.
CreateRespond(p) ==
    /\ pc[p] = "create_respond"
    /\ loc[p].mail # Undef
    /\ Respond(p, req[p],
               [NoResp EXCEPT !.status = 201,
                              !.reason = IF loc[p].mail = "sent"
                                         THEN "Created" ELSE "CreatedMailFailed",
                              !.list = <<loc[p].trackerId>>])
    /\ UNCHANGED <<now, rows, trips, outbox>>

\* ------------------------------------------------- PUT /:trackerId (update)
UpdateValid(r) ==
    /\ r.travelerName # Undef => StrLen(r.travelerName) >= 2
    /\ r.phone # Undef => StrLen(r.phone) <= 50
    /\ r.expiresAt # Undef => isISO8601(r.expiresAt)

\* OwnerVerdict without the check of the email
OwnerVerdictNoEmail(t, email) ==
    IF ~HasRow(t) THEN "NotFound" ELSE "Authorized"

\* OwnerVerdict of a handler that refuses a deactivated tracker
OwnerVerdictActiveOnly(t, email) ==
    IF ~HasRow(t) THEN "NotFound"
    ELSE IF ~findUnique(t).isActive THEN "Inactive"
    ELSE IF Truthy(email) /\ findUnique(t).email # email THEN "EmailMismatch"
    ELSE "Authorized"

\* existence, then the email when one is given
OwnerVerdict(t, email) ==
    IF ~HasRow(t) THEN "NotFound"
    ELSE IF Truthy(email) /\ findUnique(t).email # email THEN "EmailMismatch"
    ELSE "Authorized"

Update(p, menu) ==
    /\ pc[p] = "idle"
    /\ \E rq \in menu :
        IF ~UpdateValid(rq)
        THEN Respond(p, rq, Error(400, "Validation"))
        ELSE LET v == OwnerVerdict(rq.token, rq.email) IN
             IF v = "Authorized"
             THEN Continue(p, rq, "update_write",
                           [NoLoc EXCEPT !.snap = <<findUnique(rq.token)>>])
             ELSE Respond(p, rq, Error(StatusOf(v), v))
    /\ UNCHANGED <<now, rows, trips, outbox>>

\* the update as a write-back of the whole fetched tracker with the body applied
ApplyUpdateWriteBack(row, tracker, r) ==
    [tracker EXCEPT
        !.travelerName = IF r.travelerName = Undef THEN @
                         ELSE IF Truthy(r.travelerName) THEN r.travelerName ELSE Null,
        !.phone = IF r.phone = Undef THEN @
                  ELSE IF Truthy(r.phone) THEN r.phone ELSE Null,
        !.expiresAt = IF r.expiresAt = Undef THEN @
                      ELSE IF Truthy(r.expiresAt) THEN ParseDate(r.expiresAt) ELSE NoDate]

\* ApplyUpdate of a handler that skips the fields given empty or null
ApplyUpdateNoClear(row, tracker, r) ==
    [row EXCEPT
        !.travelerName = IF Truthy(r.travelerName) THEN r.travelerName ELSE @,
        !.phone = IF Truthy(r.phone) THEN r.phone ELSE @,
        !.expiresAt = IF Truthy(r.expiresAt) THEN ParseDate(r.expiresAt) ELSE @]

\* ApplyUpdate of a handler that puts the fetched audit fields into its write
ApplyUpdateStaleAudit(row, tracker, r) ==
    [row EXCEPT
        !.travelerName = IF r.travelerName = Undef THEN @
                         ELSE IF Truthy(r.travelerName) THEN r.travelerName ELSE Null,
        !.phone = IF r.phone = Undef THEN @
                  ELSE IF Truthy(r.phone) THEN r.phone ELSE Null,
        !.expiresAt = IF r.expiresAt = Undef THEN @
                      ELSE IF Truthy(r.expiresAt) THEN ParseDate(r.expiresAt) ELSE NoDate,
        !.accessCount = tracker.accessCount,
        !.lastAccessed = tracker.lastAccessed]

\* updateData applied to the stored row: only the fields of the body
ApplyUpdate(row, tracker, r) ==
    [row EXCEPT
        !.travelerName = IF r.travelerName = Undef THEN @
                         ELSE IF Truthy(r.travelerName) THEN r.travelerName ELSE Null,
        !.phone = IF r.phone = Undef THEN @
                  ELSE IF Truthy(r.phone) THEN r.phone ELSE Null,
        !.expiresAt = IF r.expiresAt = Undef THEN @
                      ELSE IF Truthy(r.expiresAt) THEN ParseDate(r.expiresAt) ELSE NoDate]

UpdateWrite(p) ==
    /\ pc[p] = "update_write"
    /\ LET tracker == loc[p].snap[1]
           i == RowIndex(tracker.trackerId) IN
        rows' = [rows EXCEPT ![i] = ApplyUpdate(rows[i], tracker, req[p])]
    /\ Respond(p, req[p], [NoResp EXCEPT !.status = 200, !.reason = "Updated"])
    /\ UNCHANGED <<now, trips, outbox>>

\* ------------------------------------------ DELETE /:trackerId (deactivate)
Deactivate(p, menu) ==
    /\ pc[p] = "idle"
    /\ \E rq \in menu :
        LET v == OwnerVerdict(rq.token, rq.email) IN
        IF v = "Authorized"
        THEN Continue(p, rq, "deactivate_write",
                      [NoLoc EXCEPT !.snap = <<findUnique(rq.token)>>])
        ELSE Respond(p, rq, Error(StatusOf(v), v))
    /\ UNCHANGED <<now, rows, trips, outbox>>

\* ApplyDeactivate of a handler that also resets the counter
ApplyDeactivateReset(row, tracker) ==
    [row EXCEPT !.isActive = FALSE, !.accessCount = 0]

\* data: { isActive: false }
ApplyDeactivate(row, tracker) == [row EXCEPT !.isActive = FALSE]

DeactivateWrite(p) ==
    /\ pc[p] = "deactivate_write"
    /\ LET tracker == loc[p].snap[1]
           i == RowIndex(tracker.trackerId) IN
        rows' = [rows EXCEPT ![i] = ApplyDeactivate(rows[i], tracker)]
    /\ Respond(p, req[p], [NoResp EXCEPT !.status = 200, !.reason = "Deactivated"])
    /\ UNCHANGED <<now, trips, outbox>>

\* ------------------------------------------------- GET /:trackerId/stats
Stats(p, menu) ==
    /\ pc[p] = "idle"
    /\ \E rq \in menu :
        LET v == OwnerVerdict(rq.token, rq.email) IN
        IF v = "Authorized"
        THEN Respond(p, rq, [NoResp EXCEPT !.status = 200, !.reason = "Stats",
                                !.count = findUnique(rq.token).accessCount])
        ELSE Respond(p, rq, Error(StatusOf(v), v))
    /\ UNCHANGED <<now, rows, trips, outbox>>

\* ---------------------------------------------- GET /:trackerId/validate
\* ValidateVerdict of a handler that looks at the expiry before isActive
ValidateVerdictExpiryFirst(t, at) ==
    IF ~HasRow(t) THEN "Tracker not found"
    ELSE IF IsExpired(findUnique(t), at) THEN "Tracker has expired"
    ELSE IF ~findUnique(t).isActive THEN "Tracker is inactive"
    ELSE "valid"

\* The checks of the handler on the fetched tracker, in the order of the code.
ValidateVerdict(t, at) ==
    IF ~HasRow(t) THEN "Tracker not found"
    ELSE IF ~findUnique(t).isActive THEN "Tracker is inactive"
    ELSE IF IsExpired(findUnique(t), at) THEN "Tracker has expired"
    ELSE "valid"

\* Validate of a handler that counts a valid probe as an access
ValidateCounting(p, menu) ==
    /\ pc[p] = "idle"
    /\ \E rq \in menu :
        LET v == ValidateVerdict(rq.token, now) IN
        /\ Respond(p, rq, [NoResp EXCEPT !.status = 200, !.reason = v,
                                         !.valid = (v = "valid")])
        /\ rows' = IF v = "valid" /\ findUnique(rq.token).accessCount < MaxAccess
                   THEN [rows EXCEPT ![RowIndex(rq.token)].accessCount = @ + 1]
                   ELSE rows
    /\ UNCHANGED <<now, trips, outbox>>

\* every verdict is sent with res.json, that is with status 200
Validate(p, menu) ==
    /\ pc[p] = "idle"
    /\ \E rq \in menu :
        LET v == ValidateVerdict(rq.token, now) IN
        Respond(p, rq, [NoResp EXCEPT !.status = 200, !.reason = v,
                                      !.valid = (v = "valid")])
    /\ UNCHANGED <<now, rows, trips, outbox>>

\* ------------------------------------------------------- GET /email/:email
\* ListMatches of a query that leaves out the trackers past their expiry
ListMatchesLive(email) ==
    {i \in 1..Len(rows) :
        rows[i].email = email /\ rows[i].isActive /\ ~IsExpired(rows[i], now)}

\* where: { email, isActive: true }
ListMatches(email) ==
    {i \in 1..Len(rows) : rows[i].email = email /\ rows[i].isActive}

\* orderBy: { createdAt: 'desc' }: every order of the matches the store may
\* return, rows of equal createdAt in either order
ListOrders(email) ==
    LET m == ListMatches(email)
        n == Cardinality(m) IN
    {s \in [1..n -> m] :
        /\ \A a, b \in 1..n : a # b => s[a] # s[b]
        /\ \A a, b \in 1..n : a < b => rows[s[a]].createdAt >= rows[s[b]].createdAt}

List(p, menu) ==
    /\ pc[p] = "idle"
    /\ \E rq \in menu :
        \E s \in ListOrders(rq.email) :
            Respond(p, rq, [NoResp EXCEPT !.status = 200, !.reason = "List",
                               !.list = [k \in 1..Len(s) |-> rows[s[k]].trackerId]])
    /\ UNCHANGED <<now, rows, trips, outbox>>

\* -------------------------------------------- POST /search (tickets route)
\* by ticketId: a ticket, else the tracker of that id with its trip;
\* by email: the tickets of the user and every tracker of that email
SearchResult(r) ==
    IF r.email # Undef /\ ~isEmail(r.email) THEN Error(400, "Validation")
    ELSE IF ~Truthy(r.token) /\ ~Truthy(r.email) THEN Error(400, "MissingParameters")
    ELSE IF Truthy(r.token)
    THEN IF r.token \in TicketIds
         THEN [NoResp EXCEPT !.status = 200, !.reason = "ticket"]
         ELSE IF HasRow(r.token)
         THEN [NoResp EXCEPT !.status = 200, !.reason = "trip",
                             !.exposed = {r.token},
                             !.count = findUnique(r.token).accessCount]
         ELSE Error(404, "NotFound")
    ELSE [NoResp EXCEPT !.status = 200, !.reason = "email_search",
             !.exposed = {rows[i].trackerId : i \in {j \in 1..Len(rows) : rows[j].email = r.email}}]

Search(p, menu) ==
    /\ pc[p] = "idle"
    /\ \E rq \in menu : Respond(p, rq, SearchResult(rq))
    /\ UNCHANGED <<now, rows, trips, outbox>>

\* ------------------------------------------------------------------- clock
Tick ==
    /\ now < MaxTime
    /\ now' = now + 1
    /\ UNCHANGED <<rows, trips, outbox, pc, req, loc, resp>>

Init ==
    /\ now = 0
    /\ rows = <<>>
    /\ trips = [t \in TripIds |-> NoDate]
    /\ outbox = {}
    /\ pc = [p \in Procs |-> "idle"]
    /\ req = [p \in Procs |-> NoReq]
    /\ loc = [p \in Procs |-> NoLoc]
    /\ resp = NoResp

\* The requests of Spec: every handler, each with its main cases.
CoreCreate ==
    {rq \in CreateRequests :
        /\ rq.email \in {"a@x.com", "bad"}
        /\ rq.tripId = "T1" /\ rq.travelerName = Undef /\ rq.startDate = Undef
        /\ rq.saveDate = Undef /\ rq.expiresAt = Undef}
CoreRead == {rq \in ReadRequests : rq.token = "TRK1" /\ rq.email \in {Undef, "b@x.com"}}
CoreUpdate ==
    {rq \in UpdateRequests :
        /\ rq.token = "TRK1" /\ rq.email = Undef /\ rq.phone = Undef
        /\ <<rq.travelerName, rq.expiresAt>> \in {<<"Bo", Undef>>, <<Undef, "t0">>}}
CoreDeactivate ==
    {rq \in DeactivateRequests : rq.token = "TRK1" /\ rq.email \in {Undef, "b@x.com"}}
CoreStats == {rq \in StatsRequests : rq.token = "TRK1" /\ rq.email = Undef}
CoreValidate == {rq \in ValidateRequests : rq.token = "TRK1"}
CoreList == {rq \in ListRequests : rq.email = "a@x.com"}
CoreSearch == {rq \in SearchRequests : rq.token = "TRK1" \/ rq.email = "a@x.com"}
CorePool == {"TRK1"}

Next ==
    \/ Tick
    \/ \E p \in Procs : Read(p, CoreRead)
    \/ \E p \in Procs : ReadUpdate(p)
    \/ \E p \in Procs : Create(p, CoreCreate)
    \/ \E p \in Procs : CreateUnique(p, CorePool)
    \/ \E p \in Procs : CreateTrip(p)
    \/ \E p \in Procs : CreateInsert(p)
    \/ \E p \in Procs : CreateMail(p)
    \/ \E p \in Procs : MailSettle(p)
    \/ \E p \in Procs : CreateRespond(p)
    \/ \E p \in Procs : Update(p, CoreUpdate)
    \/ \E p \in Procs : UpdateWrite(p)
    \/ \E p \in Procs : Deactivate(p, CoreDeactivate)
    \/ \E p \in Procs : DeactivateWrite(p)
    \/ \E p \in Procs : Stats(p, CoreStats)
    \/ \E p \in Procs : Validate(p, CoreValidate)
    \/ \E p \in Procs : List(p, CoreList)
    \/ \E p \in Procs : Search(p, CoreSearch)

Spec == Init /\ [][Next]_vars

\* ---------------------------------------------------------------------------
\* SpecGuard: one request at a time, every request of every handler, so that
\* each check of each handler meets each kind of tracker and of email.
Solo == {1}
GuardCreate ==
    {rq \in CreateRequests :
        /\ rq.email \in {"a@x.com", "bad"} /\ rq.travelerName = Undef
        /\ rq.startDate = Undef /\ rq.saveDate = Undef}
GuardUpdate ==
    {rq \in UpdateRequests :
        <<rq.travelerName, rq.phone, rq.expiresAt>> \in
            {<<"A", Undef, Undef>>, <<Undef, "555", Undef>>, <<Undef, Undef, "t1">>}}

NextGuard ==
    \/ Tick
    \/ \E p \in Solo : Read(p, ReadRequests)
    \/ \E p \in Solo : ReadUpdate(p)
    \/ \E p \in Solo : Create(p, GuardCreate)
    \/ \E p \in Solo : CreateUnique(p, CorePool)
    \/ \E p \in Solo : CreateTrip(p)
    \/ \E p \in Solo : CreateInsert(p)
    \/ \E p \in Solo : CreateMail(p)
    \/ \E p \in Solo : MailSettle(p)
    \/ \E p \in Solo : CreateRespond(p)
    \/ \E p \in Solo : Update(p, GuardUpdate)
    \/ \E p \in Solo : UpdateWrite(p)
    \/ \E p \in Solo : Deactivate(p, DeactivateRequests)
    \/ \E p \in Solo : DeactivateWrite(p)
    \/ \E p \in Solo : Stats(p, StatsRequests)
    \/ \E p \in Solo : Validate(p, ValidateRequests)
    \/ \E p \in Solo : List(p, ListRequests)
    \/ \E p \in Solo : Search(p, SearchRequests)

SpecGuard == Init /\ [][NextGuard]_vars

\* ---------------------------------------------------------------------------
\* SpecCreate: concurrent creations drawing their ids from the same pool.
IssueCreate ==
    {rq \in CreateRequests :
        /\ rq.email \in {"a@x.com", "bad"} /\ rq.travelerName = Undef
        /\ rq.saveDate = Undef
        /\ <<rq.startDate, rq.expiresAt>> \in
               {<<Undef, Undef>>, <<"t1", Undef>>}}

NextCreate ==
    \/ Tick
    \/ \E p \in Procs : Create(p, IssueCreate)
    \/ \E p \in Procs : CreateUnique(p, Tokens)
    \/ \E p \in Procs : CreateTrip(p)
    \/ \E p \in Procs : CreateInsert(p)
    \/ \E p \in Procs : CreateMail(p)
    \/ \E p \in Procs : MailSettle(p)
    \/ \E p \in Procs : CreateRespond(p)

SpecCreate == Init /\ [][NextCreate]_vars

\* ---------------------------------------------------------------------------
\* SpecAwait: one create at a time, with the scheduling the runtime gives:
\* a handler whose await has settled is resumed, so every step of the handler
\* is weakly fair. Nothing makes a request arrive, the clock tick or the mail
\* service settle a dispatch, so these steps have no fairness.
NextAwait ==
    \/ Tick
    \/ \E p \in Solo : Create(p, IssueCreate)
    \/ \E p \in Solo : CreateUnique(p, Tokens)
    \/ \E p \in Solo : CreateTrip(p)
    \/ \E p \in Solo : CreateInsert(p)
    \/ \E p \in Solo : CreateMail(p)
    \/ \E p \in Solo : MailSettle(p)
    \/ \E p \in Solo : CreateRespond(p)

HandlerFairness ==
    \A p \in Solo :
        /\ WF_vars(CreateUnique(p, Tokens))
        /\ WF_vars(CreateTrip(p))
        /\ WF_vars(CreateInsert(p))
        /\ WF_vars(CreateMail(p))
        /\ WF_vars(CreateRespond(p))

SpecAwait == Init /\ [][NextAwait]_vars /\ HandlerFairness

\* ---------------------------------------------------------------------------
\* SpecPatch: one request at a time, trackers created with a name, a phone or
\* an expiry, and every patch of update, the empty and null ones included.
NullPatches ==
    {[travelerName |-> Null, phone |-> Undef, expiresAt |-> Undef],
     [travelerName |-> Undef, phone |-> Null, expiresAt |-> Undef],
     [travelerName |-> Undef, phone |-> Undef, expiresAt |-> Null],
     [travelerName |-> "", phone |-> Undef, expiresAt |-> Undef]}
PatchCreate ==
    {rq \in CreateRequests :
        /\ rq.tripId = "T1" /\ rq.email = "a@x.com" /\ rq.startDate = Undef
        /\ \/ rq.travelerName = "Al" /\ rq.expiresAt = "t0"
           \/ rq.phone = "555"}
PatchUpdate ==
    {[NoReq EXCEPT !.op = "update", !.token = "TRK1",
                   !.travelerName = d.travelerName, !.phone = d.phone,
                   !.expiresAt = d.expiresAt] : d \in Patches \cup NullPatches}

NextPatch ==
    \/ Tick
    \/ \E p \in Solo : Create(p, PatchCreate)
    \/ \E p \in Solo : CreateUnique(p, CorePool)
    \/ \E p \in Solo : CreateTrip(p)
    \/ \E p \in Solo : CreateInsert(p)
    \/ \E p \in Solo : CreateMail(p)
    \/ \E p \in Solo : MailSettle(p)
    \/ \E p \in Solo : CreateRespond(p)
    \/ \E p \in Solo : Update(p, PatchUpdate)
    \/ \E p \in Solo : UpdateWrite(p)

SpecPatch == Init /\ [][NextPatch]_vars

\* ---------------------------------------------------------------------------
\* SpecList: one request at a time, two trackers of the same or of different
\* emails, created at different instants, with and without expiry, that can
\* be deactivated, and the lists by email.
ListCreate ==
    {rq \in CreateRequests :
        /\ rq.tripId = "T1" /\ rq.travelerName = Undef /\ rq.startDate = Undef
        /\ rq.saveDate = Undef /\ rq.expiresAt \in {Undef, "t0"}}
ListDeactivate == {rq \in DeactivateRequests : rq.email = Undef}

NextList ==
    \/ Tick
    \/ \E p \in Solo : Create(p, ListCreate)
    \/ \E p \in Solo : CreateUnique(p, Tokens)
    \/ \E p \in Solo : CreateTrip(p)
    \/ \E p \in Solo : CreateInsert(p)
    \/ \E p \in Solo : CreateMail(p)
    \/ \E p \in Solo : MailSettle(p)
    \/ \E p \in Solo : CreateRespond(p)
    \/ \E p \in Solo : Deactivate(p, ListDeactivate)
    \/ \E p \in Solo : DeactivateWrite(p)
    \/ \E p \in Solo : List(p, ListRequests)

SpecList == Init /\ [][NextList]_vars

\* ---------------------------------------------------------------------------
\* SpecEmail: one request at a time; trackers are created with an address in
\* lower case or with capitals, and read, updated and deactivated with the
\* address as it was typed at the create, or in lower case.
AccessEmails == {"a@x.com", "B@x.com", "b@x.com"}
EmailCreate ==
    {rq \in CreateRequests :
        /\ rq.tripId = "T1" /\ rq.travelerName = Undef /\ rq.startDate = Undef
        /\ rq.saveDate = Undef /\ rq.expiresAt = Undef}
EmailRead ==
    {[NoReq EXCEPT !.op = "read", !.token = "TRK1", !.email = e] :
        e \in AccessEmails}
EmailUpdate ==
    {[NoReq EXCEPT !.op = "update", !.token = "TRK1", !.email = e,
                   !.phone = "555"] : e \in AccessEmails}
EmailDeactivate ==
    {[NoReq EXCEPT !.op = "deactivate", !.token = "TRK1", !.email = e] :
        e \in AccessEmails}

NextEmail ==
    \/ Tick
    \/ \E p \in Solo : Create(p, EmailCreate)
    \/ \E p \in Solo : CreateUnique(p, CorePool)
    \/ \E p \in Solo : CreateTrip(p)
    \/ \E p \in Solo : CreateInsert(p)
    \/ \E p \in Solo : CreateMail(p)
    \/ \E p \in Solo : MailSettle(p)
    \/ \E p \in Solo : CreateRespond(p)
    \/ \E p \in Solo : Read(p, EmailRead)
    \/ \E p \in Solo : ReadUpdate(p)
    \/ \E p \in Solo : Update(p, EmailUpdate)
    \/ \E p \in Solo : UpdateWrite(p)
    \/ \E p \in Solo : Deactivate(p, EmailDeactivate)
    \/ \E p \in Solo : DeactivateWrite(p)

SpecEmail == Init /\ [][NextEmail]_vars

\* ===========================================================================
\* Properties
\* ===========================================================================
Row(t) == findUnique(t)

\* An email was supplied with the request: the parameter is there and is not
\* the empty string (an empty ?email= carries no email).
Supplied(e) == e # Undef /\ e # ""

\* expiresAt is set and lies in the past at instant `at`
PastExpiry(row, at) == row.expiresAt # NoDate /\ row.expiresAt[1] < at

\* A step in which a request is answered by the step that fetched for it: the
\* store of the step is the store the handler saw.
AnsweredAtOnce(op) == pc' = pc /\ resp' # resp /\ resp'.req.op = op

\* A step in which a read is refused.
ReadDeniedStep == AnsweredAtOnce("read")

\* A step in which the checks of a read pass and it goes on to its update.
ReadGrantedStep(p) == pc[p] = "idle" /\ pc'[p] = "read_update"

\* A step in which a read applies its update and answers 200.
ReadDoneStep(p) == pc[p] = "read_update" /\ pc'[p] = "idle"

\* C1: a read decides in the fixed order NotFound (404), Inactive (410),
\* Expired (410), EmailMismatch (403), else Authorized: each refusal is given
\* exactly when its own condition holds and none of the earlier ones does, and
\* a read is let through exactly when none holds (so a read without email of a
\* live tracker is always let through).
C1_ReadOrder ==
    [][/\ ReadDeniedStep =>
            LET t == resp'.req.token
                e == resp'.req.email IN
            /\ resp'.reason \in {"NotFound", "Inactive", "Expired", "EmailMismatch"}
            /\ (resp'.reason = "NotFound") <=> ~HasRow(t)
            /\ HasRow(t) =>
                /\ (resp'.reason = "Inactive") <=> ~Row(t).isActive
                /\ (resp'.reason = "Expired") <=>
                        (Row(t).isActive /\ PastExpiry(Row(t), now))
                /\ (resp'.reason = "EmailMismatch") <=>
                        (/\ Row(t).isActive
                         /\ ~PastExpiry(Row(t), now)
                         /\ Supplied(e)
                         /\ e # Row(t).email)
            /\ resp'.status = (CASE resp'.reason = "NotFound" -> 404
                                 [] resp'.reason = "EmailMismatch" -> 403
                                 [] OTHER -> 410)
       /\ \A p \in Procs : ReadGrantedStep(p) =>
            LET t == req'[p].token
                e == req'[p].email IN
            /\ HasRow(t)
            /\ Row(t).isActive
            /\ ~PastExpiry(Row(t), now)
            /\ Supplied(e) => e = Row(t).email
      ]_vars

\* A read with somebody else's email of a deactivated, expired tracker was
\* answered Inactive: the first of the three conditions that held.
C1_Witness ==
    /\ resp.req.op = "read" /\ resp.reason = "Inactive"
    /\ resp.req.email = "b@x.com"
    /\ HasRow(resp.req.token)
    /\ ~Row(resp.req.token).isActive
    /\ PastExpiry(Row(resp.req.token), now)
    /\ Row(resp.req.token).email = "a@x.com"

\* C2: a step changes a stored accessCount by exactly the number of
\* authorized reads of that tracker which complete in it (one, or none), and
\* the completing read leaves lastAccessed at the instant of its checks: no
\* increment is lost whatever the interleaving of the reads.
C2_NoLostUpdate ==
    [][/\ Len(rows') >= Len(rows)
       /\ \A i \in 1..Len(rows) :
            rows'[i].accessCount = rows[i].accessCount +
                Cardinality({p \in Procs :
                    ReadDoneStep(p) /\ req[p].token = rows[i].trackerId})
       /\ \A p \in Procs : ReadDoneStep(p) =>
            /\ resp'.status = 200
            /\ rows'[RowIndex(req[p].token)].lastAccessed = <<loc[p].date>>
      ]_vars

\* Two reads were in flight together: the one answered last still reports the
\* count of its fetch plus one, and the store holds both increments.
C2_Witness ==
    /\ resp.req.op = "read" /\ resp.status = 200 /\ resp.count = 1
    /\ HasRow(resp.req.token)
    /\ Row(resp.req.token).accessCount = 2

\* C3: trip data of a tracker is in a response only if the tracker passed the
\* active and expiry rules for that request, and only together with an
\* increment of its accessCount.
C3_GuardedExposure ==
    [][(resp' # resp /\ resp'.exposed # {}) =>
        \A t \in resp'.exposed :
            /\ HasRow(t)
            /\ rows'[RowIndex(t)].accessCount = Row(t).accessCount + 1
            /\ \/ \E p \in Procs : ReadDoneStep(p) /\ req[p].token = t
               \/ Row(t).isActive /\ ~PastExpiry(Row(t), now)
      ]_vars

\* C4: a row whose isActive is false keeps it false in every step (and stays
\* the row of the same tracker), a deactivate that succeeds leaves it false,
\* and a read that fetches it is answered 410 Inactive.
C4_DeactivationTerminal ==
    [][/\ \A i \in 1..Len(rows) : ~rows[i].isActive =>
            /\ Len(rows') >= i
            /\ rows'[i].trackerId = rows[i].trackerId
            /\ ~rows'[i].isActive
       /\ \A p \in Procs :
            (pc[p] = "deactivate_write" /\ pc'[p] = "idle") =>
                (resp'.status = 200 /\ ~rows'[RowIndex(req[p].token)].isActive)
       /\ (ReadDeniedStep /\ HasRow(resp'.req.token)
                          /\ ~Row(resp'.req.token).isActive) =>
            (resp'.status = 410 /\ resp'.reason = "Inactive")
       /\ \A p \in Procs : ReadGrantedStep(p) => Row(req'[p].token).isActive
      ]_vars

\* A deactivated tracker was updated afterwards and then read: it is still
\* inactive and the read was answered Inactive.
C4_Witness ==
    /\ resp.req.op = "read" /\ resp.status = 410 /\ resp.reason = "Inactive"
    /\ resp.req.email = Undef
    /\ ~Row(resp.req.token).isActive
    /\ Row(resp.req.token).travelerName = "Bo"
    /\ Row(resp.req.token).accessCount > 0

\* The request carries an email that is not the stored email of its tracker.
EmailMismatches(rq) ==
    HasRow(rq.token) /\ Supplied(rq.email) /\ rq.email # Row(rq.token).email

\* A step in which update or deactivate passes its checks and goes on to write.
OwnerGrantedStep(p) ==
    pc[p] = "idle" /\ pc'[p] \in {"update_write", "deactivate_write"}

\* C5 as stated: update and deactivate with a mismatching email are always
\* answered 403, and the record is the same after as before.
C5_MismatchAlways403 ==
    [][/\ \A op \in {"update", "deactivate"} :
            (AnsweredAtOnce(op) /\ EmailMismatches(resp'.req)) =>
                (resp'.status = 403 /\ rows' = rows)
       /\ \A p \in Procs : OwnerGrantedStep(p) => ~EmailMismatches(req'[p])
      ]_vars

\* C5 as amended: deactivate with a mismatching email is answered 403; update
\* with a mismatching email is answered 403 when its body passes validation
\* and 400 when it does not (validation comes first); in each case no write
\* follows and every field of every record is the same after as before.
C5_MismatchDenied ==
    [][/\ \A op \in {"update", "deactivate"} :
            (AnsweredAtOnce(op) /\ EmailMismatches(resp'.req)) =>
                /\ rows' = rows
                /\ resp'.status =
                      IF op = "update" /\
                         \/ resp'.req.travelerName \in {"", "A"}
                         \/ resp'.req.expiresAt \notin {Undef} \cup DateStrings
                      THEN 400 ELSE 403
       /\ \A p \in Procs : OwnerGrantedStep(p) => ~EmailMismatches(req'[p])
      ]_vars

\* An update with a valid body and somebody else's email was answered 403 and
\* the tracker still has the fields it was created with.
C5_Witness ==
    /\ resp.req.op = "update" /\ resp.status = 403
    /\ resp.req.email = "b@x.com" /\ resp.req.phone = "555"
    /\ HasRow(resp.req.token)
    /\ Row(resp.req.token).email = "a@x.com"
    /\ Row(resp.req.token).phone = Null

\* A step in which a read is decided, for request rq: refused or let through.
ReadDecidedStep(rq) ==
    \/ ReadDeniedStep /\ resp'.req = rq
    \/ \E p \in Procs : ReadGrantedStep(p) /\ req'[p] = rq

\* C6 as stated: a read of a tracker whose expiresAt is in the past is always
\* answered Denied(Expired), whatever isActive and the email are.
C6_PastExpiryAlwaysExpired ==
    [][\A rq \in ReadRequests :
        (ReadDecidedStep(rq) /\ HasRow(rq.token) /\ PastExpiry(Row(rq.token), now)) =>
            (ReadDeniedStep /\ resp'.status = 410 /\ resp'.reason = "Expired")
      ]_vars

\* C6 as amended: a read of a tracker whose expiresAt is in the past is always
\* refused with 410, whatever the email: Denied(Expired) when isActive is
\* true, Denied(Inactive) when it is false.
C6_PastExpiryDenied ==
    [][\A rq \in ReadRequests :
        (ReadDecidedStep(rq) /\ HasRow(rq.token) /\ PastExpiry(Row(rq.token), now)) =>
            /\ ReadDeniedStep
            /\ resp'.status = 410
            /\ resp'.reason = IF Row(rq.token).isActive THEN "Expired" ELSE "Inactive"
      ]_vars

\* An active tracker past its expiry was read with its own email: Expired.
C6_Witness ==
    /\ resp.req.op = "read" /\ resp.status = 410 /\ resp.reason = "Expired"
    /\ resp.req.email = "a@x.com"
    /\ Row(resp.req.token).email = "a@x.com"
    /\ Row(resp.req.token).isActive

\* live, as the data model states it: expiresAt strictly after now
LiveStrict(t, at) ==
    /\ HasRow(t)
    /\ Row(t).isActive
    /\ Row(t).expiresAt = NoDate \/ Row(t).expiresAt[1] > at

\* live, with the instant of expiry itself still live
LiveInclusive(t, at) ==
    /\ HasRow(t)
    /\ Row(t).isActive
    /\ Row(t).expiresAt = NoDate \/ Row(t).expiresAt[1] >= at

\* C7 as stated: a read without email is let through exactly when isActive is
\* true and expiresAt is unset or expiresAt > now.
C7_ReadIffLiveStrict ==
    [][\A rq \in ReadRequests :
        (ReadDecidedStep(rq) /\ rq.email = Undef) =>
            (ReadDeniedStep <=> ~LiveStrict(rq.token, now))
      ]_vars

\* C7 as amended: a read without email is let through exactly when isActive
\* is true and expiresAt is unset or expiresAt >= now: at now = expiresAt the
\* tracker is still live, it is expired only once now > expiresAt.
C7_ReadIffLiveInclusive ==
    [][\A rq \in ReadRequests :
        (ReadDecidedStep(rq) /\ rq.email = Undef) =>
            (ReadDeniedStep <=> ~LiveInclusive(rq.token, now))
      ]_vars

\* A read without email at the very instant of expiry was answered 200.
C7_Witness ==
    /\ resp.req.op = "read" /\ resp.status = 200 /\ resp.req.email = Undef
    /\ Row(resp.req.token).expiresAt = <<now>>
    /\ Row(resp.req.token).lastAccessed = <<now>>

\* ensureUniqueTrackerId has returned loc[p].trackerId to the create of p.
HoldsToken(p) ==
    pc[p] \in {"create_trip", "create_insert", "create_mail", "create_respond"}

\* The create of p has inserted its tracker row.
HasInserted(p) == pc[p] \in {"create_mail", "create_respond"}

\* C8 as stated: the tokens ensureUniqueTrackerId has returned to creates that
\* are in flight together are pairwise distinct.
C8_ReturnedTokensDistinct ==
    \A p, q \in Procs :
        (p # q /\ HoldsToken(p) /\ HoldsToken(q)) =>
            loc[p].trackerId # loc[q].trackerId

\* C8 as amended: every token ensureUniqueTrackerId returns had no tracker row
\* when it was looked up; concurrent creates may be handed the same token, and
\* of the creates that hold the same token at most one inserts its row.
C8_ReturnedTokenWasFree ==
    [][/\ \A p \in Procs :
            (pc[p] = "create_unique" /\ pc'[p] = "create_trip") =>
                (loc'[p].trackerId \in Tokens /\ ~HasRow(loc'[p].trackerId))
       /\ \A p, q \in Procs :
            (p # q /\ HoldsToken(p)' /\ HoldsToken(q)'
                   /\ loc'[p].trackerId = loc'[q].trackerId) =>
                ~(HasInserted(p)' /\ HasInserted(q)')
      ]_vars

\* Two creates hold the same token; one has inserted it, the other has not yet.
C8_Witness ==
    \E p, q \in Procs :
        /\ p # q
        /\ HasInserted(p)
        /\ pc[q] = "create_insert"
        /\ loc[p].trackerId = loc[q].trackerId

\* C9: the table never holds two rows of the same trackerId, and an insert of
\* a trackerId that is taken is refused: the create is answered 500 and every
\* row stays as it was.
C9_UniqueConstraint ==
    [][/\ \A i, j \in 1..Len(rows') :
            i # j => rows'[i].trackerId # rows'[j].trackerId
       /\ \A p \in Procs :
            (pc[p] = "create_insert" /\ pc'[p] # "create_insert"
                                     /\ HasRow(loc[p].trackerId)) =>
                (pc'[p] = "idle" /\ resp'.status = 500 /\ rows' = rows)
      ]_vars

\* A create whose token was taken between its lookup and its insert was
\* answered 500, and the row of the first creator is there.
C9_Witness ==
    /\ resp.req.op = "create" /\ resp.status = 500
    /\ resp.reason = "DuplicateTrackerId"
    /\ Len(rows) = 1
    /\ rows[1].isActive

\* C10: every turn of ensureUniqueTrackerId is one more attempt of at most
\* maxAttempts; it returns its candidate exactly when the candidate has no
\* row, goes on when it has one and attempts are left, and fails at attempt
\* maxAttempts, which the create answers with 500; no turn, and no step of the
\* create before it, touches a tracker row, a trip or the outbox.
C10_BoundedRetry ==
    [][\A p \in Procs :
        /\ (pc[p] = "idle" /\ pc'[p] = "create_unique") =>
                (loc'[p].attempts = 0 /\ UNCHANGED <<rows, trips, outbox>>)
        /\ (pc[p] = "create_unique" /\ (pc'[p] # pc[p] \/ loc'[p] # loc[p])) =>
            /\ loc[p].attempts < maxAttempts
            /\ UNCHANGED <<rows, trips, outbox>>
            /\ \/ /\ pc'[p] = "create_trip"
                  /\ loc'[p].trackerId \in Tokens
                  /\ ~HasRow(loc'[p].trackerId)
               \/ /\ pc'[p] = "create_unique"
                  /\ loc'[p].attempts = loc[p].attempts + 1
                  /\ loc'[p].attempts < maxAttempts
                  /\ HasRow(loc'[p].trackerId)
               \/ /\ pc'[p] = "idle"
                  /\ loc[p].attempts + 1 = maxAttempts
                  /\ resp'.req.op = "create"
                  /\ resp'.status = 500
                  /\ resp'.reason = "ExhaustedAttempts"
      ]_vars

\* A create found every candidate taken and was answered 500.
C10_Witness ==
    /\ resp.req.op = "create" /\ resp.status = 500
    /\ resp.reason = "ExhaustedAttempts"
    /\ Len(rows) = Cardinality(Tokens)

\* C11: a create commits the trip's start date and the tracker row together
\* or not at all: outside a create that is between the two writes, a trip
\* whose start date a create has written has a tracker row.
C11_CreateAllOrNothing ==
    \A id \in TripIds :
        trips[id] # NoDate =>
            \/ \E i \in 1..Len(rows) : rows[i].tripId = id
            \/ \E p \in Procs : pc[p] = "create_insert" /\ req[p].tripId = id

\* The confirmation mail of the create of p.
MailOf(p) == [to |-> req[p].email, trackerId |-> loc[p].trackerId]

\* C12: a mail enters the outbox only by the create that has just inserted
\* the row of its tracker, one mail per create: the handler reaches the
\* dispatch only from an accepted insert, leaves it by handing over its one
\* mail, and then only answers 201; a create answered otherwise (400, 404,
\* 500) ends before the dispatch and leaves the outbox as it was.
C12_MailAfterInsertOnce ==
    [][/\ outbox' # outbox =>
            \E p \in Procs :
                /\ pc[p] = "create_mail" /\ pc'[p] = "create_respond"
                /\ outbox' = outbox \cup {MailOf(p)}
                /\ HasRow(loc[p].trackerId)
                /\ Row(loc[p].trackerId).email = req[p].email
       /\ \A p \in Procs :
            /\ (pc'[p] = "create_mail" /\ pc[p] # "create_mail") =>
                    /\ pc[p] = "create_insert"
                    /\ Len(rows') = Len(rows) + 1
                    /\ rows'[Len(rows')].trackerId = loc[p].trackerId
            /\ (pc[p] = "create_mail" /\ pc'[p] # "create_mail") =>
                    (pc'[p] = "create_respond" /\ MailOf(p) \in outbox')
            /\ (pc[p] = "create_respond" /\ pc'[p] # "create_respond") =>
                    (pc'[p] = "idle" /\ resp'.status = 201 /\ outbox' = outbox)
            /\ (pc'[p] = "idle" /\ pc[p] # "idle" /\ req[p].op = "create"
                                /\ resp'.status # 201) =>
                    (pc[p] \in {"create_unique", "create_insert"}
                        /\ outbox' = outbox)
       /\ (AnsweredAtOnce("create") /\ resp'.status # 201) => outbox' = outbox
       /\ \A m \in outbox' : HasRow(m.trackerId)'
      ]_vars

\* A create was refused at its insert while the only mail handed over is the
\* one of the create that inserted the row.
C12_Witness ==
    /\ resp.req.op = "create" /\ resp.status = 500
    /\ Len(rows) = 1
    /\ outbox = {[to |-> rows[1].email, trackerId |-> rows[1].trackerId]}

\* C13: however the dispatch ends (sent, {success: false}, thrown), no step
\* of it removes or changes a tracker row, and the create answers 201 with
\* its tracker, whose row is in the table and is found by a read.
C13_MailFailureHarmless ==
    [][\A p \in Procs :
        /\ (pc[p] = "create_respond" /\ loc'[p] # loc[p] /\ pc'[p] = pc[p]) =>
                (loc'[p].mail \in MailOutcomes /\ rows' = rows)
        /\ (pc[p] = "create_respond" /\ pc'[p] # pc[p]) =>
                /\ loc[p].mail \in MailOutcomes
                /\ resp'.req = req[p]
                /\ resp'.status = 201
                /\ resp'.list = <<loc[p].trackerId>>
                /\ rows' = rows
                /\ HasRow(loc[p].trackerId)
                /\ Row(loc[p].trackerId).email = req[p].email
                /\ ReadVerdict(loc[p].trackerId, Undef, now) # "NotFound"
      ]_vars

\* A create whose dispatch failed was answered 201 and its row is there.
C13_Witness ==
    /\ resp.req.op = "create" /\ resp.status = 201
    /\ resp.reason = "CreatedMailFailed"
    /\ HasRow(resp.list[1])
    /\ Row(resp.list[1]).email = resp.req.email

\* C14: a create that has inserted its row goes on to send its 201 response,
\* whether or not the dispatch of the notification ever settles.
C14_ResponseNotBlocked ==
    \A p \in Solo :
        HasInserted(p) ~>
            (pc[p] = "idle" /\ resp.req.op = "create" /\ resp.status = 201)

\* C15: a validate changes no tracker row, no trip and no mail, whatever its
\* verdict, and answers valid = true exactly when the token has a row that is
\* active and not past its expiry.
C15_ValidatePure ==
    [][AnsweredAtOnce("validate") =>
        LET t == resp'.req.token IN
        /\ UNCHANGED <<rows, trips, outbox>>
        /\ resp'.status = 200
        /\ resp'.exposed = {}
        /\ resp'.valid <=>
             (HasRow(t) /\ Row(t).isActive /\ ~PastExpiry(Row(t), now))
        /\ resp'.reason \in {"Tracker not found", "Tracker is inactive",
                             "Tracker has expired", "valid"}
      ]_vars

\* A tracker that had been read was validated after its expiry: the verdict is
\* "expired" and the counter of the row is still the one the read left.
C15_Witness ==
    /\ resp.req.op = "validate" /\ ~resp.valid
    /\ resp.reason = "Tracker has expired"
    /\ HasRow(resp.req.token)
    /\ Row(resp.req.token).accessCount = 1
    /\ Row(resp.req.token).lastAccessed # NoDate

\* C16: the create that goes on to its insert has just written the trip's
\* start date: the date of the request when it gives one, the current date
\* otherwise, whatever the trip held; and no create inserts, mails or answers
\* 201 without having gone through that write.
C16_StartDateWritten ==
    [][\A p \in Procs :
        /\ (pc[p] = "create_trip" /\ pc'[p] # "create_trip") =>
            /\ pc'[p] = "create_insert"
            /\ trips'[req[p].tripId] =
                   IF req[p].startDate # Undef
                   THEN ParseDate(req[p].startDate) ELSE <<loc[p].date>>
            /\ \A id \in TripIds \ {req[p].tripId} : trips'[id] = trips[id]
        /\ (pc'[p] = "create_insert" /\ pc[p] # "create_insert") =>
                pc[p] = "create_trip"
        /\ (pc'[p] = "create_mail" /\ pc[p] # "create_mail") =>
                pc[p] = "create_insert"
        /\ (pc'[p] = "create_respond" /\ pc[p] # "create_respond") =>
                pc[p] = "create_mail"
        /\ (pc'[p] = "idle" /\ pc[p] # "idle" /\ req[p].op = "create"
                            /\ resp'.status = 201) =>
                pc[p] = "create_respond"
      ]_vars

\* A create that gave a start date was answered 201, and the trip holds the
\* current date that a create without a start date wrote over it.
C16_Witness ==
    /\ resp.req.op = "create" /\ resp.status = 201
    /\ resp.req.startDate = "t1"
    /\ now = 0
    /\ trips["T1"] = <<0>>
    /\ \A p \in Procs : pc[p] = "idle"

\* A create is past its trip lookup.
InCreate(p) ==
    pc[p] \in {"create_unique", "create_trip", "create_insert",
               "create_mail", "create_respond"}

\* C17: a create whose body passes validation and whose tripId names no trip
\* is answered 404 TripNotFound by the step that looked the trip up, and that
\* step changes no row, no trip, no mail and draws no identifier; a create
\* goes on to the generator only with the id of an existing trip.
C17_TripNotFoundPure ==
    [][/\ (AnsweredAtOnce("create") /\ CreateValid(resp'.req)
                                    /\ resp'.req.tripId \notin TripIds) =>
            /\ resp'.status = 404
            /\ resp'.reason = "TripNotFound"
            /\ UNCHANGED <<rows, trips, outbox, loc>>
       /\ \A p \in Procs : InCreate(p)' => req'[p].tripId \in TripIds
       /\ \A i \in 1..Len(rows') : rows'[i].tripId \in TripIds
      ]_vars

\* A create for a trip that does not exist was refused with 404 while the
\* tracker, the trip date and the mail of an earlier create are as they were.
C17_Witness ==
    /\ resp.req.op = "create" /\ resp.status = 404
    /\ resp.req.tripId = "T9"
    /\ Len(rows) = 1 /\ rows[1].tripId = "T1"
    /\ Cardinality(outbox) = 1
    /\ \A p \in Procs : loc[p].trackerId = Undef /\ loc[p].attempts = 0

\* C18: update is refused only for an invalid body (400), a token without a
\* row (404) or a supplied email that differs from the stored one (403), and
\* deactivate only for the last two; neither looks at isActive or expiresAt.
\* An update or deactivate that is not refused writes and answers 200: the
\* update stores the values of its patch, the deactivate stores isActive
\* false, whatever isActive and expiresAt the row has.
C18_OwnerChecksOnly ==
    [][/\ \A op \in {"update", "deactivate"} :
            AnsweredAtOnce(op) =>
                LET rq == resp'.req IN
                /\ rows' = rows
                /\ resp'.status =
                      IF op = "update" /\ ~UpdateValid(rq) THEN 400
                      ELSE IF ~HasRow(rq.token) THEN 404
                      ELSE 403
                /\ resp'.status = 403 => EmailMismatches(rq)
       /\ \A p \in Procs :
            (pc[p] \in {"update_write", "deactivate_write"} /\ pc'[p] # pc[p]) =>
                LET rq == req[p]
                    i == RowIndex(rq.token) IN
                /\ pc'[p] = "idle"
                /\ resp'.req = rq /\ resp'.status = 200
                /\ HasRow(rq.token)
                /\ rq.op = "deactivate" => ~rows'[i].isActive
                /\ rq.op = "update" =>
                    /\ rows'[i].isActive = rows[i].isActive
                    /\ Truthy(rq.travelerName) =>
                            rows'[i].travelerName = rq.travelerName
                    /\ Truthy(rq.phone) => rows'[i].phone = rq.phone
                    /\ Truthy(rq.expiresAt) =>
                            rows'[i].expiresAt = ParseDate(rq.expiresAt)
      ]_vars

\* An update without an email was answered 200 on a tracker that is
\* deactivated and past its expiry, and its patch is stored.
C18_Witness ==
    /\ resp.req.op = "update" /\ resp.status = 200
    /\ resp.req.email = Undef /\ resp.req.phone = "555"
    /\ HasRow(resp.req.token)
    /\ ~Row(resp.req.token).isActive
    /\ PastExpiry(Row(resp.req.token), now)
    /\ Row(resp.req.token).phone = "555"

\* The value update stores for a field of its patch: v, or null when v is
\* empty or null.
Cleared(v) == v \in {"", Null}

C20_ListByEmail ==
    [][AnsweredAtOnce("list") =>
        LET e == resp'.req.email
            l == resp'.list IN
        /\ UNCHANGED <<rows, trips, outbox>>
        /\ resp'.status = 200
        /\ {l[k] : k \in 1..Len(l)} =
              {rows[i].trackerId : i \in {j \in 1..Len(rows) :
                                            rows[j].email = e /\ rows[j].isActive}}
        /\ \A a, b \in 1..Len(l) : a # b => l[a] # l[b]
        /\ \A a, b \in 1..Len(l) :
              a < b => Row(l[a]).createdAt >= Row(l[b]).createdAt
      ]_vars

\* The list of an email holds two trackers, the newer first, the older one
\* past its expiry.
C20_Witness ==
    /\ resp.req.op = "list" /\ Len(resp.list) = 2
    /\ HasRow(resp.list[1]) /\ HasRow(resp.list[2])
    /\ Row(resp.list[1]).createdAt > Row(resp.list[2]).createdAt
    /\ PastExpiry(Row(resp.list[2]), now)
    /\ Row(resp.list[1]).isActive /\ Row(resp.list[2]).isActive

\* C21: a tracker row is inserted with accessCount 0; no step lowers a stored
\* accessCount; a step that changes it is the completion of an authorized
\* read of that tracker and raises it by exactly 1; the steps that answer an
\* update, a deactivate, a validate, a list, a stats or a denied read leave
\* every accessCount as it was.
C21_AccessCountMonotonic ==
    [][/\ Len(rows') >= Len(rows)
       /\ \A i \in 1..Len(rows') :
            IF i > Len(rows) THEN rows'[i].accessCount = 0
            ELSE /\ rows'[i].trackerId = rows[i].trackerId
                 /\ rows'[i].accessCount >= rows[i].accessCount
                 /\ rows'[i].accessCount # rows[i].accessCount =>
                        /\ rows'[i].accessCount = rows[i].accessCount + 1
                        /\ \E p \in Procs :
                            /\ ReadDoneStep(p)
                            /\ req[p].token = rows[i].trackerId
                            /\ resp'.req = req[p] /\ resp'.status = 200
       /\ (resp' # resp /\ (resp'.status # 200 \/ resp'.req.op # "read")
                        /\ resp'.req.op # "create") =>
            /\ Len(rows') = Len(rows)
            /\ \A i \in 1..Len(rows) : rows'[i].accessCount = rows[i].accessCount
      ]_vars

\* A tracker that was read twice was then deactivated: its counter is still 2.
C21_Witness ==
    /\ resp.req.op = "deactivate" /\ resp.status = 200
    /\ HasRow(resp.req.token)
    /\ ~Row(resp.req.token).isActive
    /\ Row(resp.req.token).accessCount = 2

\* The status the contract gives to the outcome a response reports.
ContractStatus(r) ==
    CASE r.reason \in {"Validation", "InvalidDate"} -> 400
      [] r.reason = "EmailMismatch" -> 403
      [] r.reason \in {"NotFound", "TripNotFound", "Tracker not found"} -> 404
      [] r.reason \in {"Inactive", "Expired", "Tracker is inactive",
                       "Tracker has expired"} -> 410
      [] r.reason \in {"ExhaustedAttempts", "DuplicateTrackerId"} -> 500
      [] r.reason \in {"Created", "CreatedMailFailed"} -> 201
      [] OTHER -> 200

\* C22: every response of read, update, deactivate, create and validate has
\* the status of the contract for its outcome: 200 (201 for create) for a
\* success, 400 for a body that is not valid, 403 for an email mismatch, 404
\* for a tracker or trip not found, 410 for an inactive or expired tracker,
\* 500 for an unexpected failure.
C22_StatusContract ==
    [][(resp' # resp /\ resp'.req.op \in {"read", "update", "deactivate",
                                          "create", "validate"}) =>
            resp'.status = ContractStatus(resp')
      ]_vars

\* C23: the step that refuses a read, for whichever reason, changes no
\* tracker row, no trip and no mail, and nothing of the requests in flight.
C23_DeniedReadPure ==
    [][ReadDeniedStep =>
        /\ resp'.reason \in {"NotFound", "Inactive", "Expired", "EmailMismatch"}
        /\ resp'.status \in {403, 404, 410}
        /\ resp'.exposed = {}
        /\ UNCHANGED <<rows, trips, outbox, pc, req, loc>>
      ]_vars

\* A read with somebody else's email was refused on a tracker that had been
\* read once: its counter and its last access are those of that first read.
C23_Witness ==
    /\ resp.req.op = "read" /\ resp.status = 403
    /\ HasRow(resp.req.token)
    /\ Row(resp.req.token).accessCount = 1
    /\ Row(resp.req.token).lastAccessed = <<0>>
    /\ now = 1

\* C24: when a create answers 201, its tracker is live: the row is active, not
\* past its expiry and never read, so that a read of its token without email
\* at that moment is let through (and leaves accessCount at 1).
C24_CreateYieldsLive ==
    [][\A p \in Procs :
        (pc[p] = "create_respond" /\ pc'[p] = "idle" /\ resp'.status = 201) =>
            LET t == loc[p].trackerId IN
            /\ HasRow(t)
            /\ Row(t).isActive
            /\ Row(t).accessCount = 0
            /\ ~PastExpiry(Row(t), now)
            /\ ReadVerdict(t, Undef, now) = "Authorized"
      ]_vars

\* C25: no step changes accessCount or lastAccessed of a row whose stored
\* isActive is false.
C25_InactiveAuditFrozen ==
    [][\A i \in 1..Len(rows) :
        ~rows[i].isActive =>
            /\ Len(rows') >= i
            /\ rows'[i].accessCount = rows[i].accessCount
            /\ rows'[i].lastAccessed = rows[i].lastAccessed
      ]_vars

\* C26: the access_count an authorized read reports is the stored accessCount
\* right after the increment of that read.
C26_ReportedCountIsStored ==
    [][\A p \in Procs :
        ReadDoneStep(p) =>
            /\ resp'.req = req[p] /\ resp'.status = 200
            /\ resp'.count = rows'[RowIndex(req[p].token)].accessCount
      ]_vars

\* C27: in every state each row has accessCount = 0 exactly when its
\* lastAccessed is unset; lastAccessed is written only by the step in which
\* an authorized read of that tracker completes, together with its increment.
C27_CountZeroIffNeverAccessed ==
    [][/\ \A i \in 1..Len(rows') :
            (rows'[i].accessCount = 0) <=> (rows'[i].lastAccessed = NoDate)
       /\ \A i \in 1..Len(rows) :
            (Len(rows') >= i /\ rows'[i].lastAccessed # rows[i].lastAccessed) =>
                /\ rows'[i].accessCount = rows[i].accessCount + 1
                /\ \E p \in Procs :
                    ReadDoneStep(p) /\ req[p].token = rows[i].trackerId
      ]_vars

\* A tracker read once and then updated holds count 1 and the instant of the
\* read; the update touched neither.
C27_Witness ==
    /\ resp.req.op = "update" /\ resp.status = 200
    /\ HasRow(resp.req.token)
    /\ Row(resp.req.token).accessCount = 1
    /\ Row(resp.req.token).lastAccessed = <<0>>
    /\ now = 1

\* C28: a read, update or deactivate that supplies an address which create
\* accepts and stores as the email of the tracker (the address the tracker
\* was created with is one) is not answered 403.
C28_EmailRoundTrip ==
    [][\A op \in {"read", "update", "deactivate"} :
        (AnsweredAtOnce(op) /\ HasRow(resp'.req.token)
            /\ isEmail(resp'.req.email)
            /\ normalizeEmail(resp'.req.email) = Row(resp'.req.token).email) =>
                resp'.status # 403
      ]_vars

\* C29: the write of an update changes, in the row as stored at that moment,
\* only the fields its patch names among travelerName, phone and expiresAt;
\* trackerId, tripId, email, isActive, accessCount, lastAccessed and the
\* fields the patch does not name keep the stored value, also when another
\* request wrote the row after this update had fetched it. So the increment
\* of a concurrent read, the isActive = false of a concurrent deactivate and
\* the fields of a concurrent update stay.
C29_UpdateWritesPatchOnly ==
    [][\A p \in Procs :
        (pc[p] = "update_write" /\ pc'[p] # pc[p]) =>
            LET rq == req[p]
                i == RowIndex(rq.token)
                old == rows[i]
                new == rows'[i] IN
            /\ HasRow(rq.token)
            /\ Len(rows') = Len(rows)
            /\ \A j \in 1..Len(rows) : j # i => rows'[j] = rows[j]
            /\ new.trackerId = old.trackerId /\ new.tripId = old.tripId
            /\ new.email = old.email /\ new.isActive = old.isActive
            /\ new.accessCount = old.accessCount
            /\ new.lastAccessed = old.lastAccessed
            /\ rq.travelerName = Undef => new.travelerName = old.travelerName
            /\ rq.phone = Undef => new.phone = old.phone
            /\ rq.expiresAt = Undef => new.expiresAt = old.expiresAt
            /\ Truthy(rq.travelerName) => new.travelerName = rq.travelerName
            /\ Truthy(rq.expiresAt) => new.expiresAt = ParseDate(rq.expiresAt)
      ]_vars

\* An update has been applied and answered while a read that fetched the row
\* before it (no name yet) has still to apply its increment.
C29_Witness ==
    /\ resp.req.op = "update" /\ resp.status = 200
    /\ resp.req.travelerName = "Bo"
    /\ HasRow(resp.req.token)
    /\ Row(resp.req.token).travelerName = "Bo"
    /\ \E q \in Procs :
        /\ pc[q] = "read_update"
        /\ req[q].token = resp.req.token
        /\ loc[q].snap[1].travelerName = Null

\* C30: validate is a faithful pre-flight for read. On the store and at the
\* instant of a validate, its answer is valid = true exactly when the checks
\* of a read of the same token with no email give Authorized, and its reasons
\* "Tracker not found", "Tracker is inactive", "Tracker has expired" are given
\* exactly when those checks give NotFound, Inactive, Expired.
C30_ValidateIsReadPreflight ==
    [][AnsweredAtOnce("validate") =>
        LET v == ReadVerdict(resp'.req.token, Undef, now) IN
        /\ resp'.valid = (v = "Authorized")
        /\ (resp'.reason = "valid") = (v = "Authorized")
        /\ (resp'.reason = "Tracker not found") = (v = "NotFound")
        /\ (resp'.reason = "Tracker is inactive") = (v = "Inactive")
        /\ (resp'.reason = "Tracker has expired") = (v = "Expired")
      ]_vars

\* A validate answered "inactive" for a tracker that is past its expiry too:
\* the case in which the order of the two checks shows.
C30_Witness ==
    /\ resp.req.op = "validate"
    /\ resp.reason = "Tracker is inactive"
    /\ HasRow(resp.req.token)
    /\ ~Row(resp.req.token).isActive
    /\ IsExpired(Row(resp.req.token), now)
    /\ ReadVerdict(resp.req.token, Undef, now) = "Inactive"
====
